---- MODULE Spec2Model ----
(***************************************************************************)
(* Model of ingest/export_subsample.py: the orchestration loop of the     *)
(* script and AtlasSubsampler.process_atlas, which subsamples every cell   *)
(* type of a full loom matrix to at most n columns, normalises them and    *)
(* writes one loom file per export variant.                                *)
(*                                                                         *)
(* Strings are TLA+ strings (sequences of characters), so that file names, *)
(* prefixes and substrings are computed as the code computes them.         *)
(* Column and row indices are 1-based here (numpy's are 0-based).          *)
(* The numeric layer is kept by provenance: a matrix is the pair of the    *)
(* full-matrix row indices it retains and, per column, the full-matrix     *)
(* column it was read and normalised from (0 for an np.zeros column).      *)
(***************************************************************************)
EXTENDS Integers, Sequences, FiniteSets, TLC

\* ---------------------------------------------------------------- bounds
\* Largest number of columns of a full matrix.
MaxCells == 22
\* Largest number of columns of a full matrix read with output files present,
\* overwrite set or a metadata file that does not parse.
MaxSmallCells == 3
\* Largest number of runs of equal labels a cellType array is built from.
MaxRuns == 3
\* Largest number of (dataset, tissue) pairs of an orchestrated run.
MaxPairs == 2

\* ------------------------------------------------------ program constants
\* AtlasSubsampler.n: the cap on the columns kept per cell type.
n == 20

\* Python's None, for an absent tissue; a present tissue t is <<t>>.
None == <<>>

fdn_full == "../data_full/"

fdn_out == "../data/subsamples/"

exclude_list == {"too_low_aQual", "alignment_not_unique", "ambiguous", "no_feature", "not_aligned"}

\* ---------------------------------------------------------- pure helpers
\* str.startswith
startswith(s, p) == Len(s) >= Len(p) /\ SubSeq(s, 1, Len(p)) = p

\* Python's `p in s` on strings
contains(s, p) == \E j \in 1..(Len(s) - Len(p) + 1) : SubSeq(s, j, j + Len(p) - 1) = p

\* str(k) for k >= 0: the decimal digits of k
RECURSIVE str(_)
str(k) == IF k < 10 THEN SubSeq("0123456789", k + 1, k + 1)
          ELSE str(k \div 10) \o SubSeq("0123456789", (k % 10) + 1, (k % 10) + 1)

\* Assignment into a numpy array of dtype 'U<w>' keeps the first w characters.
astype_U(s, w) == IF Len(s) > w THEN SubSeq(s, 1, w) ELSE s

Max(S) == CHOOSE x \in S : \A y \in S : y <= x

\* The k-element subsets of S.
RECURSIVE KSubsets(_, _)
KSubsets(S, k) == IF k = 0 THEN {{}}
                  ELSE {T \cup {x} : T \in KSubsets(S, k - 1), x \in S} \ KSubsets(S, k - 1)

\* np.random.shuffle(ind) followed by ind[:ni]: the first ni entries of a
\* permutation of ind are all of ind but any len(ind) - ni of its entries;
\* np.sort forgets their order, so the prefix is kept as the set of its entries.
shuffle_take(ind, ni) == {ind \ D : D \in KSubsets(ind, Cardinality(ind) - ni)}

\* The elements of a set of integers in ascending order.
Ascending(S) == [k \in 1..Cardinality(S) |-> CHOOSE x \in S : Cardinality({y \in S : y <= x}) = k]

\* The entries of the shuffled prefix in the reverse of ascending order.
np_sort_unsorted(S) == [k \in 1..Cardinality(S) |-> CHOOSE x \in S : Cardinality({y \in S : y >= x}) = k]

\* np.sort(ind[:ni]) (line 147): the kept indices in ascending order.
np_sort(S) == Ascending(S)

\* s[mask] for a boolean mask: the entries of s at the positions where the
\* mask is True, in their order.
mask_select(s, mask) == LET kept == Ascending({j \in DOMAIN s : mask[j]})
                        IN  [k \in DOMAIN kept |-> s[kept[k]]]

\* Counter(cts): the labels in the order of their first appearance, each
\* with the number of columns carrying it.
Counter(cts) == LET firsts == Ascending({j \in DOMAIN cts : \A h \in 1..(j - 1) : cts[h] # cts[j]})
                IN  [k \in DOMAIN firsts |->
                       [ct |-> cts[firsts[k]], ni |-> Cardinality({j \in DOMAIN cts : cts[j] = cts[firsts[k]]})]]

\* The counts left as they are.
cap_counts_uncapped(c) == c

\* lines 112-114: every count above n is replaced by n.
cap_counts(c) == [k \in DOMAIN c |-> IF c[k].ni > n THEN [ct |-> c[k].ct, ni |-> n] ELSE c[k]]

RECURSIVE sum_values(_)
sum_values(c) == IF c = <<>> THEN 0 ELSE sum_values(SubSeq(c, 1, Len(c) - 1)) + c[Len(c)].ni

\* The feature mask without the test of a leading underscore.
fea_bool_no_underscore(fea) == /\ fea \notin exclude_list
                               /\ ~startswith(fea, "ERCC-")

\* lines 127-131: the feature mask entry of one feature name.
fea_bool(fea) == /\ fea \notin exclude_list
                 /\ ~startswith(fea, "ERCC-")
                 /\ ~startswith(fea, "_")

\* AtlasSubsampler.get_full_filename
get_full_filename(name, tissue) == IF tissue = None
                                   THEN fdn_full \o name \o "/dataset.loom"
                                   ELSE fdn_full \o name \o "/dataset_" \o tissue[1] \o ".loom"

\* AtlasSubsampler.get_output_filename
get_output_filename(tissue, metaname) == IF tissue = None
                                         THEN fdn_out \o metaname \o ".loom"
                                         ELSE fdn_out \o metaname \o "_" \o tissue[1] \o ".loom"

\* AtlasSubsampler.get_custom_filters: the filter names in the iteration
\* order of the dict (custom entries first, then '' added last).
get_custom_filters(name) == IF name = "Darmanis_2015" THEN <<"nofetal", "">> ELSE <<"">>

\* A custom predicate with the test inverted.
fun_inverted(filtname, x) == IF filtname = "nofetal" THEN contains(x, "fetal") ELSE TRUE

\* The predicate stored under a filter name (None selects every column).
fun(filtname, x) == IF filtname = "nofetal" THEN ~contains(x, "fetal") ELSE TRUE

\* lines 92-97 and 163-168: the metadata/file name of a variant.
metaname_of(name, filtname) == IF filtname # "" THEN name \o "_" \o filtname ELSE name

\* A handle that is never closed.
with_exit_leak(h) == h

\* with-statement exit of loompy.connect: the handle is closed.
with_exit(h) == "closed"

\* get_atlas_metadata: the record stored under a name, an empty dict if none.
EmptyDict == [k \in {} |-> ""]

get_atlas_metadata(store, name) == IF name \in DOMAIN store THEN store[name] ELSE EmptyDict

\* ------------------------------------------------------------------ state
VARIABLES
    datasets,        \* the discovered (name, tissue) pairs, in iteration order
    overwrite,       \* args.overwrite
    data_full,       \* ../data_full: full loom file name -> [cellType, GeneName]
    atlas_metadata,  \* ../atlas_metadata.yml: [ok, meta]; ok = FALSE if it does not parse
    subsamples,      \* ../data/subsamples: output file name -> loom file
    pc,              \* position of the script
    pos,             \* index in datasets of the pair of the current/last call
    self,            \* the AtlasSubsampler of the current call
    fns_out,         \* process_atlas locals, by their names in the source
    dsl,
    cts,
    n_cells,
    n_cells_tot,
    N,
    ind_fea,
    features,
    L,
    i,
    lstring,
    matrix,
    meta,
    cnames,
    ct_k,            \* position of the loop of line 140 in n_cells.items()
    filt_k,          \* position of the loop of line 162 in self.filters.items()
    exc,             \* the uncaught exception that ended the script, "" if none
    before,          \* history: subsamples when the current call was entered
    written,         \* history: the output files the current call has created
    writers,         \* history: output file name -> the calls (pos) that created it
    attempted        \* history: the positions process_atlas was called for

inputs == <<datasets, overwrite, data_full, atlas_metadata>>

locals == <<fns_out, cts, n_cells, n_cells_tot, N, ind_fea, features, L, i, lstring, matrix, meta, cnames, ct_k, filt_k>>

history == <<before, written, writers, attempted>>

vars == <<inputs, subsamples, pc, pos, self, dsl, exc, locals, history>>

\* ----------------------------------------------------------------- inputs
Pairs == { [name |-> "Darmanis_2015", tissue |-> None],
           [name |-> "Darmanis_2015", tissue |-> <<"nofetal">>],
           [name |-> "Enge_2017", tissue |-> <<"pancreas">>] }

CellTypes == {"fetal_quiescent", "neurons"}

\* Run lengths around the cap: below it, at it and above it.
RunLens == {1, n, n + 1}

RECURSIVE RunSeqs(_)
RunSeqs(k) == IF k = 0 THEN {<<>>}
              ELSE LET r == RunSeqs(k - 1)
                   IN  r \cup {Append(s, [ct |-> c, len |-> l]) : s \in r, c \in CellTypes, l \in RunLens}

RECURSIVE Expand(_)
Expand(runs) == IF runs = <<>> THEN <<>>
                ELSE LET last == runs[Len(runs)]
                     IN  Expand(SubSeq(runs, 1, Len(runs) - 1)) \o [j \in 1..last.len |-> last.ct]

\* The cellType arrays of at most maxCells columns built from at most MaxRuns runs.
CellTypeArrays(maxCells) == {a \in {Expand(r) : r \in RunSeqs(MaxRuns)} : Len(a) <= maxCells}

FeatureLists == { <<"Actb", "ERCC-00002", "no_feature", "ERCC1", "__ambiguous", "too_low_aQual",
                    "Gapdh", "alignment_not_unique", "_", "ambiguous", "not_aligned", "no_features">>,
                  <<"Gapdh", "Actb">> }

Matrices(maxCells) == [cellType : CellTypeArrays(maxCells), GeneName : FeatureLists]

RunMatrices == { [cellType |-> <<>>, GeneName |-> <<"Gapdh", "Actb">>],
                 [cellType |-> <<"neurons", "fetal_quiescent">>, GeneName |-> <<"Gapdh", "_", "Actb">>] }

\* The metadata file of the repository: entries for some of the datasets.
DefaultMetadata == [ok |-> TRUE, meta |-> ("Darmanis_2015" :> (("Tissue" :> "brain") @@ ("Number of cells" :> 466)))
                                          @@ ("Enge_2017" :> ("Species" :> "human"))]

\* A metadata file without entries, the default one, and one that does not parse.
MetadataStores == { [ok |-> TRUE, meta |-> EmptyDict], DefaultMetadata, [ok |-> FALSE, meta |-> EmptyDict] }

\* A loom file left in the output directory by an earlier run.
StaleFile == [layer |-> [rows |-> <<>>, cols |-> <<>>], GeneName |-> <<>>,
              CellName |-> <<"stale">>, CellType |-> <<"stale">>, file_attrs |-> EmptyDict]

Range(s) == {s[k] : k \in DOMAIN s}

\* The output file names of a pair, one per export variant.
Targets(p) == {get_output_filename(p.tissue, metaname_of(p.name, f)) : f \in Range(get_custom_filters(p.name))}

RECURSIVE PairLists(_)
PairLists(k) == IF k = 0 THEN {<<>>}
                ELSE LET r == PairLists(k - 1)
                     IN  r \cup {Append(s, p) : s \in {t \in r : Len(t) = k - 1}, p \in Pairs}

\* discover_datasets yields a dict name -> tissues: the pairs are distinct and
\* those of one dataset are adjacent.
DatasetLists(k) == {s \in PairLists(k) :
                      /\ s # <<>>
                      /\ \A a, b \in DOMAIN s : a # b => s[a] # s[b]
                      /\ \A a, b, c \in DOMAIN s : (a < b /\ b < c /\ s[a].name = s[c].name) => s[b].name = s[a].name}

\* ------------------------------------------------------------------- Init
InitCall == /\ pc = "loop"
            /\ pos = 0
            /\ self = [name |-> "", tissue |-> None, overwrite |-> FALSE, full_filename |-> "", filters |-> <<>>]
            /\ dsl = "closed"
            /\ exc = ""
            /\ fns_out = EmptyDict
            /\ cts = <<>>
            /\ n_cells = <<>>
            /\ n_cells_tot = 0
            /\ N = 0
            /\ ind_fea = <<>>
            /\ features = <<>>
            /\ L = 0
            /\ i = 0
            /\ lstring = 0
            /\ matrix = [rows |-> <<>>, cols |-> <<>>]
            /\ meta = <<>>
            /\ cnames = <<>>
            /\ ct_k = 0
            /\ filt_k = 0
            /\ before = subsamples
            /\ written = {}
            /\ writers = EmptyDict
            /\ attempted = {}

\* One pair: either any full matrix of the family exported into an empty
\* output directory, or a small full matrix (or none) with any set of output
\* files already present, either overwrite flag and any metadata file.
Init == /\ \E p \in Pairs :
             /\ datasets = <<p>>
             /\ \/ /\ data_full \in {get_full_filename(p.name, p.tissue) :> m : m \in Matrices(MaxCells)}
                   /\ subsamples = EmptyDict
                   /\ overwrite = FALSE
                   /\ atlas_metadata = DefaultMetadata
                \/ /\ data_full \in {EmptyDict} \cup {get_full_filename(p.name, p.tissue) :> m : m \in Matrices(MaxSmallCells)}
                   /\ subsamples \in {[x \in S |-> StaleFile] : S \in SUBSET Targets(p)}
                   /\ overwrite \in BOOLEAN
                   /\ atlas_metadata \in MetadataStores
        /\ InitCall

\* A run over several pairs with small full matrices.
InitRun == /\ datasets \in DatasetLists(MaxPairs)
           /\ \E S \in SUBSET {get_full_filename(datasets[k].name, datasets[k].tissue) : k \in DOMAIN datasets} :
                data_full \in [S -> RunMatrices]
           /\ \E S \in SUBSET UNION {Targets(datasets[k]) : k \in DOMAIN datasets} :
                subsamples = [x \in S |-> StaleFile]
           /\ overwrite \in BOOLEAN
           /\ atlas_metadata \in MetadataStores
           /\ InitCall

\* ---------------------------------------------------------------- actions
\* An exception raised inside the with block of line 108: the with statement
\* closes the handle and the exception, caught nowhere, ends the script.
raise_in_with(e) == /\ dsl' = with_exit(dsl)
                    /\ pc' = "crashed"
                    /\ exc' = e

\* AtlasSubsampler.__init__
new_AtlasSubsampler(name, tissue, ow) == [name |-> name, tissue |-> tissue, overwrite |-> ow,
                                          full_filename |-> get_full_filename(name, tissue),
                                          filters |-> get_custom_filters(name)]

\* lines 212-215: the loop takes the next pair, builds its exporter and calls
\* process_atlas (lines 83-88 only print).
LoopNext == /\ pc = "loop"
            /\ pos < Len(datasets)
            /\ pos' = pos + 1
            /\ self' = new_AtlasSubsampler(datasets[pos + 1].name, datasets[pos + 1].tissue, overwrite)
            /\ pc' = "check"
            /\ fns_out' = EmptyDict
            /\ cts' = <<>>
            /\ n_cells' = <<>>
            /\ n_cells_tot' = 0
            /\ N' = 0
            /\ ind_fea' = <<>>
            /\ features' = <<>>
            /\ L' = 0
            /\ i' = 0
            /\ lstring' = 0
            /\ matrix' = [rows |-> <<>>, cols |-> <<>>]
            /\ meta' = <<>>
            /\ cnames' = <<>>
            /\ ct_k' = 0
            /\ filt_k' = 0
            /\ before' = subsamples
            /\ written' = {}
            /\ attempted' = attempted \cup {pos + 1}
            /\ UNCHANGED <<inputs, subsamples, dsl, exc, writers>>

\* lines 212-215: the loop is exhausted and the script ends.
LoopEnd == /\ pc = "loop"
           /\ pos = Len(datasets)
           /\ pc' = "done"
           /\ UNCHANGED <<inputs, subsamples, pos, self, dsl, exc, locals, history>>

\* os.path.isfile on the output directory
isfile(x) == x \in DOMAIN subsamples

\* A skip check that is satisfied by any one existing output file.
skip_check_any(fns) == (~self.overwrite) /\ (\E filtname \in DOMAIN fns : isfile(fns[filtname]))

\* line 100: the call is skipped when overwrite is off and every output file exists.
skip_check(fns) == (~self.overwrite) /\ (\A filtname \in DOMAIN fns : isfile(fns[filtname]))

\* lines 90-102: the output file names of all variants, and the skip check.
CheckOutputs == /\ pc = "check"
                /\ fns_out' = [filtname \in Range(self.filters) |->
                                 get_output_filename(self.tissue, metaname_of(self.name, filtname))]
                /\ IF skip_check(fns_out')
                   THEN pc' = "loop"
                   ELSE pc' = "connect"
                /\ UNCHANGED <<inputs, subsamples, pos, self, dsl, exc, history>>
                /\ UNCHANGED <<cts, n_cells, n_cells_tot, N, ind_fea, features, L, i, lstring, matrix, meta, cnames, ct_k, filt_k>>

\* line 108: loompy.connect raises when the full file does not exist.
Connect == /\ pc = "connect"
           /\ IF self.full_filename \in DOMAIN data_full
              THEN dsl' = "open" /\ pc' = "quota" /\ exc' = exc
              ELSE dsl' = dsl /\ pc' = "crashed" /\ exc' = "OSError"
           /\ UNCHANGED <<inputs, subsamples, pos, self, locals, history>>

\* lines 109-115: the counts per cell type, their total, the capped counts
\* and their sum.
ComputeQuota == /\ pc = "quota"
                /\ cts' = data_full[self.full_filename].cellType
                /\ n_cells_tot' = sum_values(Counter(cts'))
                /\ n_cells' = cap_counts(Counter(cts'))
                /\ N' = sum_values(n_cells')
                /\ pc' = "mask"
                /\ UNCHANGED <<inputs, subsamples, pos, self, dsl, exc, history>>
                /\ UNCHANGED <<fns_out, ind_fea, features, L, i, lstring, matrix, meta, cnames, ct_k, filt_k>>

\* lines 117-133: the feature mask and the retained feature names.
ComputeMask == /\ pc = "mask"
               /\ LET GeneName == data_full[self.full_filename].GeneName
                  IN  /\ ind_fea' = [r \in DOMAIN GeneName |-> fea_bool(GeneName[r])]
                      /\ features' = mask_select(GeneName, ind_fea')
               /\ L' = Len(features')
               /\ pc' = "alloc"
               /\ UNCHANGED <<inputs, subsamples, pos, self, dsl, exc, history>>
               /\ UNCHANGED <<fns_out, cts, n_cells, n_cells_tot, N, i, lstring, matrix, meta, cnames, ct_k, filt_k>>

\* lines 135-139: the zero-filled output arrays; max() of no cell type raises
\* ValueError.
Allocate == /\ pc = "alloc"
            /\ i' = 0
            /\ matrix' = [rows |-> [r \in 1..L |-> 0], cols |-> [c \in 1..N |-> 0]]
            /\ IF n_cells = <<>>
               THEN /\ raise_in_with("ValueError")
                    /\ UNCHANGED <<lstring, meta, cnames, ct_k>>
               ELSE /\ lstring' = Max({Len(n_cells[k].ct) : k \in DOMAIN n_cells})
                    /\ meta' = [c \in 1..N |-> ""]
                    /\ cnames' = [c \in 1..N |-> ""]
                    /\ ct_k' = 1
                    /\ pc' = "assemble"
                    /\ UNCHANGED <<dsl, exc>>
            /\ UNCHANGED <<inputs, subsamples, pos, self, history>>
            /\ UNCHANGED <<fns_out, cts, n_cells, n_cells_tot, N, ind_fea, features, L, filt_k>>

\* lines 140-160: one iteration of the loop over the cell types: the columns
\* of the type are shuffled, the first ni kept and sorted, read, restricted to
\* the retained rows, normalised and stored at offset i.
AssembleCellType == /\ pc = "assemble"
                    /\ LET ct == n_cells[ct_k].ct
                           ni == n_cells[ct_k].ni
                           ind == {j \in DOMAIN cts : cts[j] = ct}
                       IN  \E taken \in shuffle_take(ind, ni) :
                             LET sorted == np_sort(taken)
                             IN  /\ matrix' = [rows |-> mask_select([r \in DOMAIN ind_fea |-> r], ind_fea),
                                               cols |-> [c \in DOMAIN matrix.cols |->
                                                           IF i < c /\ c <= i + ni THEN sorted[c - i] ELSE matrix.cols[c]]]
                                 /\ meta' = [c \in DOMAIN meta |->
                                               IF i < c /\ c <= i + ni THEN astype_U(ct, lstring) ELSE meta[c]]
                                 /\ cnames' = [c \in DOMAIN cnames |->
                                                 IF i < c /\ c <= i + ni
                                                 THEN astype_U(ct \o "_" \o str(c - i), lstring + 12)
                                                 ELSE cnames[c]]
                                 /\ i' = i + ni
                    /\ ct_k' = ct_k + 1
                    /\ pc' = IF ct_k = Len(n_cells) THEN "exit" ELSE "assemble"
                    /\ UNCHANGED <<inputs, subsamples, pos, self, dsl, exc, history>>
                    /\ UNCHANGED <<fns_out, cts, n_cells, n_cells_tot, N, ind_fea, features, L, lstring, filt_k>>

\* line 160 -> 162: the with block is left and the handle closed.
ExitWith == /\ pc = "exit"
            /\ dsl' = with_exit(dsl)
            /\ filt_k' = 1
            /\ pc' = "export"
            /\ UNCHANGED <<inputs, subsamples, pos, self, exc, history>>
            /\ UNCHANGED <<fns_out, cts, n_cells, n_cells_tot, N, ind_fea, features, L, i, lstring, matrix, meta, cnames, ct_k>>

\* File attributes that carry the size of the subsample.
build_file_attrs_subsample_size(base, tot, tissue) == LET a == ("Number of cells" :> N) @@ base
                                                      IN  IF tissue # None THEN ("Tissue" :> tissue[1]) @@ a ELSE a

\* lines 172-175: the file attributes of a variant.
build_file_attrs(base, tot, tissue) == LET a == ("Number of cells" :> tot) @@ base
                                       IN  IF tissue # None THEN ("Tissue" :> tissue[1]) @@ a ELSE a

\* lines 177-197: the loom file of a variant: the columns the predicate keeps.
variant_file(filtname, attrs) == LET ind == [c \in DOMAIN meta |-> fun(filtname, meta[c])]
                                 IN  [layer |-> [rows |-> matrix.rows, cols |-> mask_select(matrix.cols, ind)],
                                      GeneName |-> features,
                                      CellName |-> mask_select(cnames, ind),
                                      CellType |-> mask_select(meta, ind),
                                      file_attrs |-> attrs]

\* lines 162-197: one iteration of the loop over the variants: the metadata
\* is read (yaml.safe_load raises on a file that does not parse), the columns
\* are filtered and the loom file is created, replacing any file of that name.
ExportVariant == /\ pc = "export"
                 /\ LET filtname == self.filters[filt_k]
                        metaname == metaname_of(self.name, filtname)
                        fn_out == fns_out[filtname]
                    IN  IF ~atlas_metadata.ok
                        THEN /\ pc' = "crashed"
                             /\ exc' = "YAMLError"
                             /\ UNCHANGED <<subsamples, filt_k, written, writers>>
                        ELSE /\ subsamples' = (fn_out :> variant_file(filtname,
                                                  build_file_attrs(get_atlas_metadata(atlas_metadata.meta, metaname),
                                                                   n_cells_tot, self.tissue))) @@ subsamples
                             /\ written' = written \cup {fn_out}
                             /\ writers' = (fn_out :> ((IF fn_out \in DOMAIN writers THEN writers[fn_out] ELSE {}) \cup {pos}))
                                           @@ writers
                             /\ filt_k' = filt_k + 1
                             /\ pc' = IF filt_k = Len(self.filters) THEN "loop" ELSE "export"
                             /\ exc' = exc
                 /\ UNCHANGED <<inputs, pos, self, dsl, before, attempted>>
                 /\ UNCHANGED <<fns_out, cts, n_cells, n_cells_tot, N, ind_fea, features, L, i, lstring, matrix, meta, cnames, ct_k>>

Next == \/ LoopNext
        \/ LoopEnd
        \/ CheckOutputs
        \/ Connect
        \/ ComputeQuota
        \/ ComputeMask
        \/ Allocate
        \/ AssembleCellType
        \/ ExitWith
        \/ ExportVariant

\* One call of process_atlas on any full matrix of the family.
Spec == Init /\ [][Next]_vars

\* A run of the script over several pairs.
SpecRun == InitRun /\ [][Next]_vars

\* ----------------------------------------------------------------- claims
\* The call of process_atlas for datasets[pos] has returned.
Returned == pos >= 1 /\ pc \in {"loop", "done"}

\* The call has returned after writing its output files.
Exported == Returned /\ written # {}

\* The call has ended by an exception.
Raised == pc = "crashed"

CountOf(seq, x) == Cardinality({j \in DOMAIN seq : seq[j] = x})

Min(a, b) == IF a <= b THEN a ELSE b

RECURSIVE SumOver(_, _)
SumOver(S, f) == IF S = {} THEN 0
                 ELSE LET x == CHOOSE y \in S : TRUE IN f[x] + SumOver(S \ {x}, f)

\* The cellType attribute of the full matrix of the current call.
FullCellType == data_full[self.full_filename].cellType

\* The GeneName attribute of the full matrix of the current call.
FullGeneName == data_full[self.full_filename].GeneName

\* The output files of the current call.
DefaultFile == subsamples[fns_out[""]]

VariantFiles == {subsamples[fns_out[f]] : f \in DOMAIN fns_out}

\* C1: after a call that exported, for every cell type ct of the full matrix
\* the default output and the assembled subsample hold exactly
\* min(count(ct), 20) columns labelled ct and no other label, and the number
\* of columns N is the sum of these minima.
C1_QuotaPerCellType == Exported =>
                         LET quota == [ct \in Range(FullCellType) |-> Min(CountOf(FullCellType, ct), 20)]
                         IN  /\ \A ct \in Range(FullCellType) :
                                  /\ CountOf(DefaultFile.CellType, ct) = quota[ct]
                                  /\ CountOf(meta, ct) = quota[ct]
                             /\ Range(DefaultFile.CellType) \subseteq Range(FullCellType)
                             /\ Range(meta) \subseteq Range(FullCellType)
                             /\ N = SumOver(Range(FullCellType), quota)
                             /\ Len(DefaultFile.CellType) = N
                             /\ Len(DefaultFile.layer.cols) = N
                             /\ Len(meta) = N

\* A call exported a matrix with one cell type above the cap and one below it.
C1_Witness == /\ Exported
              /\ \E ct \in Range(FullCellType) : CountOf(FullCellType, ct) > 20 /\ CountOf(DefaultFile.CellType, ct) = 20
              /\ \E ct \in Range(FullCellType) : CountOf(FullCellType, ct) < 20

C3_FailureDoesNotAbort == pc \in {"done", "crashed"} => attempted = DOMAIN datasets

\* C4: no output file is created by the calls of two different pairs.
C4_WritesConfinedToPair == \A x \in DOMAIN writers : Cardinality(writers[x]) <= 1

\* C5: a call for Darmanis_2015 writes a default and a nofetal file from one
\* subsample: the default file holds all N assembled columns, the nofetal file
\* exactly the columns of the default file whose label does not contain
\* 'fetal', in the same order with the same names and values; a call for any
\* other dataset writes the default file only.
C5_CustomVariantOfSameSubsample == Exported =>
    /\ DefaultFile.CellType = meta /\ DefaultFile.CellName = cnames /\ DefaultFile.layer = matrix
    /\ Len(DefaultFile.CellType) = N
    /\ IF self.name = "Darmanis_2015"
       THEN /\ DOMAIN fns_out = {"", "nofetal"}
            /\ written = {fns_out[""], fns_out["nofetal"]}
            /\ fns_out[""] # fns_out["nofetal"]
            /\ LET d == DefaultFile
                   c == subsamples[fns_out["nofetal"]]
                   keep == Ascending({j \in DOMAIN d.CellType : ~contains(d.CellType[j], "fetal")})
               IN  /\ Len(c.CellType) = Len(keep) /\ Len(c.CellName) = Len(keep) /\ Len(c.layer.cols) = Len(keep)
                   /\ \A k \in DOMAIN keep : /\ c.CellType[k] = d.CellType[keep[k]]
                                             /\ c.CellName[k] = d.CellName[keep[k]]
                                             /\ c.layer.cols[k] = d.layer.cols[keep[k]]
                   /\ c.layer.rows = d.layer.rows
                   /\ c.GeneName = d.GeneName
                   /\ \A k \in DOMAIN c.CellType : ~contains(c.CellType[k], "fetal")
       ELSE /\ DOMAIN fns_out = {""}
            /\ written = {fns_out[""]}

\* A Darmanis_2015 call whose subsample holds fetal and other columns, the
\* fetal ones removed from the nofetal file.
C5_Witness == /\ Exported
              /\ self.name = "Darmanis_2015"
              /\ \E j \in DOMAIN DefaultFile.CellType : contains(DefaultFile.CellType[j], "fetal")
              /\ subsamples[fns_out["nofetal"]].CellType # <<>>
              /\ Len(subsamples[fns_out["nofetal"]].CellType) < Len(DefaultFile.CellType)

\* The feature mask as the specification words it.
C7_Passes(fea) == /\ fea \notin {"too_low_aQual", "alignment_not_unique", "ambiguous", "no_feature", "not_aligned"}
                  /\ ~(Len(fea) >= 5 /\ SubSeq(fea, 1, 5) = "ERCC-")
                  /\ ~(Len(fea) >= 1 /\ SubSeq(fea, 1, 1) = "_")

\* C7: in every file a call writes, the rows are exactly the features of the
\* full matrix that are not in the exclude list and start neither with
\* 'ERCC-' nor with '_', in their original order, and L is their number.
C7_FeatureMask == Exported =>
                    \A file \in VariantFiles :
                      /\ Range(file.layer.rows) = {r \in DOMAIN FullGeneName : C7_Passes(FullGeneName[r])}
                      /\ \A a, b \in DOMAIN file.layer.rows : a < b => file.layer.rows[a] < file.layer.rows[b]
                      /\ Len(file.GeneName) = Len(file.layer.rows)
                      /\ \A k \in DOMAIN file.GeneName : file.GeneName[k] = FullGeneName[file.layer.rows[k]]
                      /\ Len(file.GeneName) = L
                      /\ L = Cardinality({r \in DOMAIN FullGeneName : C7_Passes(FullGeneName[r])})

\* A call exported a matrix with features of each excluded kind and features
\* that only resemble them.
C7_Witness == /\ Exported
              /\ {"ERCC-00002", "__ambiguous", "_", "no_feature", "ERCC1", "no_features"} \subseteq Range(FullGeneName)
              /\ Range(DefaultFile.GeneName) = {"Actb", "ERCC1", "Gapdh", "no_features"}

C9_AssembledOrder == (pc \in {"exit", "export"} \/ Exported) =>
    LET first == [ct \in Range(cts) |-> CHOOSE j \in DOMAIN cts : cts[j] = ct /\ \A h \in 1..(j - 1) : cts[h] # ct]
        rank(c) == Cardinality({a \in 1..c : meta[a] = meta[c]})
    IN  /\ cts = FullCellType
        /\ Len(meta) = N /\ Len(cnames) = N /\ Len(matrix.cols) = N
        /\ \A c \in DOMAIN meta : matrix.cols[c] \in DOMAIN cts /\ cts[matrix.cols[c]] = meta[c]
        /\ \A a, b \in DOMAIN meta : a # b => matrix.cols[a] # matrix.cols[b]
        /\ \A c \in 2..Len(meta) : meta[c] = meta[c - 1] \/ \A a \in 1..(c - 1) : meta[a] # meta[c]
        /\ \A a, b \in DOMAIN meta : (a < b /\ meta[a] # meta[b]) => first[meta[a]] < first[meta[b]]
        /\ \A a, b \in DOMAIN meta : (a < b /\ meta[a] = meta[b]) => matrix.cols[a] < matrix.cols[b]
        /\ \A c \in DOMAIN meta : cnames[c] = meta[c] \o "_" \o ToString(rank(c))

\* A subsample of two cell types, one of them capped and scattered in the
\* full matrix around the columns of the other.
C9_Witness == /\ pc = "export"
              /\ Cardinality(Range(meta)) = 2
              /\ N < Len(cts)
              /\ cts[1] = cts[Len(cts)]
              /\ CountOf(cts, cts[1]) > 20

\* C10: the handle of the full matrix is open from the reading of cellType to
\* the end of the assembly, during which no output file is touched; it is
\* closed when the first output file is written and in every later state of
\* the call; and when the call ends by an exception of the reading steps the
\* handle is closed and the output directory is as the call found it.
C10_HandleScope == /\ pc \in {"quota", "mask", "alloc", "assemble", "exit"} =>
                        dsl = "open" /\ written = {} /\ subsamples = before
                   /\ pc = "export" => dsl = "closed" /\ i = N /\ ct_k = Len(n_cells) + 1
                   /\ written # {} => dsl = "closed"
                   /\ (Raised /\ exc \in {"OSError", "ValueError"}) =>
                        dsl = "closed" /\ written = {} /\ subsamples = before

\* A call on a full matrix without cells raised ValueError after the handle
\* was opened, with output files present.
C10_Witness == /\ Raised
               /\ exc = "ValueError"
               /\ dsl = "closed"
               /\ cts = <<>>
               /\ DOMAIN before # {}

====
